---- MODULE Spec2Model ----
(***************************************************************************)
(* A model of the chat middleware chain of Django-Middleware-0x03:         *)
(* chats/middleware.py (request logging, time-of-day gate, per-IP rate     *)
(* limiter over the Django cache, role gate) wired in the order of         *)
(* settings.MIDDLEWARE.  Every request is a thread walking the chain; the  *)
(* cache, the log sink and the clock are shared.                           *)
(***************************************************************************)
EXTENDS Integers, Sequences, FiniteSets, TLC

VARIABLES
    now,      \* the clock: seconds since the epoch, local time
    chain,    \* the middleware chain built at start-up, outermost first
    cache,    \* django.core.cache.cache: key -> [value, expires]
    log,      \* the sink of the "request_logger" logger: an append-only file,
              \* never read back, kept as its length and its last line
    req,      \* worker slot -> the request that worker is serving / served last
    arrived,  \* number of requests accepted so far
    tally,    \* history: <<key, reset_at>> -> [issued, allowed] by the limiter
    admitted  \* history, kept in the runs that ask for it: <<key, t>> -> number
              \* of requests of the key that the limiter allowed at time t

vars == <<now, chain, cache, log, req, arrived, tally, admitted>>

----------------------------------------------------------------------------
(* Bounds of the model.                                                    *)

MaxWorkers == 2         \* requests in flight at once
MaxRequests == 4        \* requests accepted in one run of the whole chain
MaxTicks == 2           \* clock ticks in one run of the whole chain
MaxRateRequests == 6    \* requests accepted in one run of the limiter alone
MaxRateTicks == 2       \* clock ticks in one run of the limiter alone
MaxSeqRequests == 8     \* requests accepted in one run, one after another
MaxSeqTicks == 4        \* clock ticks in one run, one after another
MaxUnitRequests == 2    \* requests handed to one middleware on its own
MaxScopeRequests == 8   \* requests accepted in one run, in and out of scope
MaxFaultRequests == 3   \* requests accepted in one run with a failing cache
MaxKeyRequests == 3     \* requests accepted in one run, from several clients
MaxClientRequests == 3  \* requests accepted in one run of two clients
MaxQuotaRequests == 7   \* requests accepted in one run of protected POSTs
MaxBurstRequests == 11  \* requests accepted in one run of bursts of one client
MaxBurstTicks == 3      \* clock ticks in one run of bursts of one client

----------------------------------------------------------------------------
(* Program constants.                                                      *)

START_HOUR == 6
END_HOUR == 21
WINDOW_SECONDS == 60
MAX_MESSAGES == 5
SCOPE_PREFIX == "chat_rate_"
PROTECTED_PREFIXES == <<"/chats/admin", "/chats/moderate">>

\* The list with the limiter put in front of the time gate.
MIDDLEWARE_LimiterFirst ==
    << "SecurityMiddleware",
       "SessionMiddleware",
       "RequestLoggingMiddleware",
       "OffensiveLanguageMiddleware",
       "RestrictAccessByTimeMiddleware",
       "RolepermissionMiddleware",
       "CommonMiddleware",
       "CsrfViewMiddleware",
       "AuthenticationMiddleware",
       "MessageMiddleware",
       "XFrameOptionsMiddleware" >>

\* The list with the role gate put in front of the limiter.
MIDDLEWARE_RoleGateFirst ==
    << "SecurityMiddleware",
       "SessionMiddleware",
       "RequestLoggingMiddleware",
       "RestrictAccessByTimeMiddleware",
       "RolepermissionMiddleware",
       "OffensiveLanguageMiddleware",
       "CommonMiddleware",
       "CsrfViewMiddleware",
       "AuthenticationMiddleware",
       "MessageMiddleware",
       "XFrameOptionsMiddleware" >>

\* settings.MIDDLEWARE
MIDDLEWARE ==
    << "SecurityMiddleware",
       "SessionMiddleware",
       "RequestLoggingMiddleware",
       "RestrictAccessByTimeMiddleware",
       "OffensiveLanguageMiddleware",
       "RolepermissionMiddleware",
       "CommonMiddleware",
       "CsrfViewMiddleware",
       "AuthenticationMiddleware",
       "MessageMiddleware",
       "XFrameOptionsMiddleware" >>

ChatsMiddleware ==
    { "RequestLoggingMiddleware", "RestrictAccessByTimeMiddleware",
      "OffensiveLanguageMiddleware", "RolepermissionMiddleware" }

ClosedBody == "Chat is closed. Please come back during allowed hours."
RateBody == "Rate limit exceeded: max 5 messages per minute."
RoleBody == "Forbidden: admin/moderator role required."
ViewBody == "OK"

----------------------------------------------------------------------------
(* Strings, as Python computes on them.                                    *)

\* str.startswith(prefix)
StartsWith(s, p) == Len(s) >= Len(p) /\ SubSeq(s, 1, Len(p)) = p

\* str.startswith(tuple of prefixes)
StartsWithAny(s, ps) == \E i \in 1..Len(ps) : StartsWith(s, ps[i])

\* str.split(",")[0]
FirstField(s) ==
    LET commas == { i \in 1..Len(s) : SubSeq(s, i, i) = "," }
    IN  IF commas = {} THEN s
        ELSE SubSeq(s, 1, (CHOOSE i \in commas : \A j \in commas : i <= j) - 1)

\* str.strip()
Strip(s) ==
    LET solid == { i \in 1..Len(s) : SubSeq(s, i, i) # " " }
    IN  IF solid = {} THEN ""
        ELSE SubSeq(s, CHOOSE i \in solid : \A j \in solid : i <= j,
                       CHOOSE i \in solid : \A j \in solid : i >= j)

Range(seq) == { seq[i] : i \in 1..Len(seq) }

\* dict.get(name, default) on a header that is <<>> when missing
HeaderGet(h, default) == IF h = <<>> THEN default ELSE h[1]

\* The forwarded-for header ignored: the address of the peer, always.
_get_client_ip_remote_addr(META) == HeaderGet(META.REMOTE_ADDR, "0.0.0.0")

\* lines 11-16
_get_client_ip(META) ==
    LET xff == META.HTTP_X_FORWARDED_FOR
    IN  IF xff # <<>> /\ xff[1] # ""
        THEN Strip(FirstField(xff[1]))
        ELSE HeaderGet(META.REMOTE_ADDR, "0.0.0.0")

----------------------------------------------------------------------------
(* The clock.                                                              *)

HMS(h, m, s) == h * 3600 + m * 60 + s

\* The clock moves in ticks of half a window, so that a run meets the instant
\* a window ends as well as instants inside it.
TickSeconds == WINDOW_SECONDS \div 2

\* datetime.hour of a local time
Hour(t) == (t \div 3600) % 24

TwoDigits(n) == IF n < 10 THEN "0" \o ToString(n) ELSE ToString(n)

\* strftime("%Y-%m-%d %H:%M:%S"), for the times of the first day of the epoch
Strftime(t) ==
    "1970-01-01 " \o TwoDigits(Hour(t)) \o ":" \o TwoDigits((t \div 60) % 60)
                  \o ":" \o TwoDigits(t % 60)

\* The times a run starts at: half a minute before the chat opens, or mid-morning.
BeforeOpening == HMS(5, 59, 30)
MidMorning == HMS(10, 0, 0)

----------------------------------------------------------------------------
(* Users, as django.contrib.auth presents them.                            *)

User(name, auth, super, groups) ==
    [ username |-> name, is_authenticated |-> auth,
      is_superuser |-> super, groups |-> groups ]

AnonymousUser == User("", FALSE, FALSE, {})
Alice == User("alice", TRUE, FALSE, {})
Adam == User("adam", TRUE, FALSE, {"admin"})
Mona == User("mona", TRUE, FALSE, {"moderator"})
Sam == User("sam", TRUE, FALSE, {"staff"})
Root == User("root", TRUE, TRUE, {})

\* user.groups.filter(name__in=names).exists()
GroupsFilterExists(user, names) == user.groups \cap names # {}

----------------------------------------------------------------------------
(* The cache (django.core.cache.cache, the default local-memory backend).  *)

\* cache.get(key, default) at time t: a missing or expired entry gives default
CacheGet(c, key, default, t) ==
    IF key \in DOMAIN c /\ c[key].expires > t THEN c[key].value ELSE default

\* ... and an expired entry is dropped by the read that finds it
CacheAfterGet(c, key, t) ==
    IF key \in DOMAIN c /\ c[key].expires <= t
    THEN [ k \in DOMAIN c \ {key} |-> c[k] ]
    ELSE c

\* The timeout dropped: the entry is stored already expired.
CacheSetExpiringNow(c, key, value, timeout, t) ==
    [ k \in DOMAIN c \cup {key} |->
        IF k = key THEN [ value |-> value, expires |-> t ] ELSE c[k] ]

\* cache.set(key, value, timeout) at time t
CacheSet(c, key, value, timeout, t) ==
    [ k \in DOMAIN c \cup {key} |->
        IF k = key THEN [ value |-> value, expires |-> t + timeout ] ELSE c[k] ]

----------------------------------------------------------------------------
(* Requests.                                                               *)

Slots == DOMAIN req

IdleRequest ==
    [ state |-> "Idle", method |-> "", path |-> "",
      META |-> [ HTTP_X_FORWARDED_FOR |-> <<>>, REMOTE_ADDR |-> <<>> ],
      session |-> AnonymousUser, user |-> <<>>,
      pc |-> 0, line |-> 0, bucket |-> <<>>, response |-> "",
      ran |-> <<>> ]

\* A request as the server hands it to the chain: no user attribute yet.
NewRequest(t) ==
    [ IdleRequest EXCEPT
        !.state = "Pending", !.method = t.method, !.path = t.path,
        !.META = t.META, !.session = t.session, !.user = t.user, !.pc = 1 ]

Template(method, path, xff, remote, session) ==
    [ method |-> method, path |-> path,
      META |-> [ HTTP_X_FORWARDED_FOR |-> xff, REMOTE_ADDR |-> remote ],
      session |-> session, user |-> <<>> ]

FromOffice == <<"10.0.0.1">>
ViaProxy == <<"10.0.0.2, 10.0.0.1">>

\* What the clients send.
PostSend == Template("POST", "/chats/send", <<>>, FromOffice, AnonymousUser)
PostSendViaProxy == Template("POST", "/chats/send", ViaProxy, FromOffice, Alice)
PostAdmin == Template("POST", "/chats/admin/x", <<>>, FromOffice, Adam)
GetAdmin == Template("GET", "/chats/admin/x", <<>>, FromOffice, Adam)

\* What a test of one middleware hands it: any path, and request.user missing
\* or set to any user.
UnitPaths ==
    { "/chats/admin/x", "/chats/administrators", "/chats/moderate",
      "/chats/messages", "/admin/chats/admin" }
UnitUsers ==
    { <<>>, <<AnonymousUser>>, <<Alice>>, <<Sam>>, <<Adam>>, <<Mona>>, <<Root>> }
UnitOffered ==
    { [ Template("GET", p, <<>>, FromOffice, AnonymousUser) EXCEPT !.user = u ] :
        p \in UnitPaths, u \in UnitUsers }

Offered == { PostSend, GetAdmin }
RateOffered == { PostSend }
SeqOffered == { PostSend, PostAdmin, GetAdmin }

InFlight == { s \in Slots : req[s].state = "Pending" }

Stage(s) == chain[req[s].pc]

At(s, name) == req[s].state = "Pending" /\ Stage(s) = name

\* The key without the client: one bucket for everybody.
KeyOfScope(r) == SCOPE_PREFIX

\* lines 74-75
Key(r) == SCOPE_PREFIX \o _get_client_ip(r.META)

TallyAt(key, reset_at) ==
    IF <<key, reset_at>> \in DOMAIN tally THEN tally[<<key, reset_at>>]
    ELSE [ issued |-> 0, allowed |-> 0 ]

AdmittedAt(key, t) ==
    IF <<key, t>> \in DOMAIN admitted THEN admitted[<<key, t>>] ELSE 0

----------------------------------------------------------------------------
(* Initial state.                                                          *)

Boot(t, middleware) ==
    /\ now = t
    /\ chain = middleware
    /\ cache = <<>>
    /\ log = [ lines |-> 0, last |-> "" ]
    /\ req = [ s \in 1..MaxWorkers |-> IdleRequest ]
    /\ arrived = 0
    /\ tally = <<>>
    /\ admitted = <<>>

\* The chain of settings.MIDDLEWARE, started before the chat opens.
Init == Boot(BeforeOpening, MIDDLEWARE)

\* The limiter alone in front of the view.
InitRate == Boot(MidMorning, <<"OffensiveLanguageMiddleware">>)

\* The role gate alone in front of the view.
InitUnit == Boot(MidMorning, <<"RolepermissionMiddleware">>)

----------------------------------------------------------------------------
(* Actions.                                                                *)

\* The clock advances, at most `ticks` times after the run began at `boot`.
Tick(boot, ticks) ==
    /\ now + TickSeconds <= boot + ticks * TickSeconds
    /\ now' = now + TickSeconds
    /\ UNCHANGED <<chain, cache, log, req, arrived, tally, admitted>>

Enter(r, name) == [ r EXCEPT !.ran = Append(@, name) ]

\* The locals of OffensiveLanguageMiddleware.__call__ end with the call.
Return(r) == [ r EXCEPT !.line = 0, !.bucket = <<>> ]

\* The downstream handler (URL resolver and view) answers the request.
View(r) ==
    [ Enter(r, "view") EXCEPT !.state = "Forwarded", !.response = ViewBody ]

\* The request at stage r.pc of the chain.  The middleware of Django itself
\* pass the request on, each to the next, and past the last stands the view;
\* the authentication middleware sets request.user from the session first.
\* They touch nothing but the request, so a run of them is one step with the
\* call that entered it.
RECURSIVE Dispatch(_)
Dispatch(r) ==
    IF r.pc > Len(chain) THEN View(r)
    ELSE IF chain[r.pc] \in ChatsMiddleware THEN r
    ELSE LET e == Enter(r, chain[r.pc])
             u == IF chain[r.pc] = "AuthenticationMiddleware"
                  THEN [ e EXCEPT !.user = <<e.session>> ] ELSE e
         IN  Dispatch([ u EXCEPT !.pc = @ + 1 ])

\* self.get_response(request): on to the next stage
GetResponse(r) == Dispatch(Return([ r EXCEPT !.pc = @ + 1 ]))

\* The response built but not returned: the request goes on down the chain.
ForbiddenNotReturned(r, body) == GetResponse(r)

\* return HttpResponseForbidden(body)
Forbidden(r, body) ==
    [ Return(r) EXCEPT !.state = "Rejected", !.response = body ]

\* The server accepts a request on slot s and enters the chain.
Accept(s, t) ==
    /\ req[s].state # "Pending"
    /\ \A z \in Slots : z < s => req[z].state = "Pending"
    /\ arrived' = arrived + 1
    /\ req' = [ req EXCEPT ![s] = Dispatch(NewRequest(t)) ]
    /\ UNCHANGED <<now, chain, cache, log, tally, admitted>>

Arrive(s, t, workers, quota) ==
    /\ Cardinality(InFlight) < workers
    /\ arrived < quota
    /\ Accept(s, t)

LogUser(r) ==
    IF r.user # <<>> /\ r.user[1].is_authenticated
    THEN r.user[1].username ELSE "anonymous"

LogLine(t, user, path) ==
    Strftime(t) \o " - User: " \o user \o " - Path: " \o path

\* A sink reopened for writing at every line: it never holds more than one.
LoggerInfoTruncating(sink, line) == [ lines |-> 1, last |-> line ]

\* logger.info(line): one more line at the end of the sink
LoggerInfo(sink, line) == [ lines |-> sink.lines + 1, last |-> line ]

RequestLoggingMiddleware(s) ==
    /\ At(s, "RequestLoggingMiddleware")
    /\ log' = LoggerInfo(log, LogLine(now, LogUser(req[s]), req[s].path))
    /\ req' = [ req EXCEPT ![s] = GetResponse(Enter(@, "RequestLoggingMiddleware")) ]
    /\ UNCHANGED <<now, chain, cache, arrived, tally, admitted>>

\* The closing hour taken as still open: <= for <.
TimeAllowedThroughEndHour(t) == START_HOUR <= Hour(t) /\ Hour(t) <= END_HOUR

\* line 51
TimeAllowed(t) == START_HOUR <= Hour(t) /\ Hour(t) < END_HOUR

RestrictAccessByTimeMiddleware(s) ==
    /\ At(s, "RestrictAccessByTimeMiddleware")
    /\ LET r == Enter(req[s], "RestrictAccessByTimeMiddleware")
       IN  req' = [ req EXCEPT ![s] =
                      IF ~TimeAllowed(now) THEN Forbidden(r, ClosedBody)
                      ELSE GetResponse(r) ]
    /\ UNCHANGED <<now, chain, cache, log, arrived, tally, admitted>>

\* The scope test without the method: every request to /chats is counted.
RateLimitedAnyMethod(r) == StartsWith(r.path, "/chats")

\* line 73
RateLimited(r) == r.method = "POST" /\ StartsWith(r.path, "/chats")

FreshBucket(t) == [ count |-> 0, reset_at |-> t + WINDOW_SECONDS ]

\* lines 73-76: the scope test and the read of the bucket
OffensiveLanguageGet(s) ==
    /\ At(s, "OffensiveLanguageMiddleware")
    /\ req[s].line = 0
    /\ LET r == Enter(req[s], "OffensiveLanguageMiddleware")
           key == Key(r)
       IN  IF RateLimited(r)
           THEN /\ req' = [ req EXCEPT ![s] =
                      [ r EXCEPT
                          !.bucket = <<CacheGet(cache, key, FreshBucket(now), now)>>,
                          !.line = 79 ] ]
                /\ cache' = CacheAfterGet(cache, key, now)
           ELSE /\ req' = [ req EXCEPT ![s] = GetResponse(r) ]
                /\ cache' = cache
    /\ UNCHANGED <<now, chain, log, arrived, tally, admitted>>

\* The expiry test with > for >=: a window is kept at the instant it ends.
ResetIfPastExpiry(bucket, t) ==
    IF t > bucket.reset_at THEN FreshBucket(t) ELSE bucket

\* The expiry test turned round: a window is reset while it is still open.
ResetIfUnexpired(bucket, t) ==
    IF t < bucket.reset_at THEN FreshBucket(t) ELSE bucket

\* lines 79-80: reset the window if it has expired
ResetIfExpired(bucket, t) ==
    IF t >= bucket.reset_at THEN FreshBucket(t) ELSE bucket

\* The count no longer raised once it is over the limit.
IncrementCapped(bucket) ==
    IF bucket.count > MAX_MESSAGES THEN bucket
    ELSE [ bucket EXCEPT !.count = @ + 1 ]

\* The increment made on a copy and lost.
IncrementOfCopy(bucket) == bucket

\* line 82
Increment(bucket) == [ bucket EXCEPT !.count = @ + 1 ]

\* The limit test with >= for >.
OverLimitAtLimit(bucket) == bucket.count >= MAX_MESSAGES

\* The limit test made on the count before line 82 raised it.
OverLimitBeforeIncrement(bucket) == bucket.count - 1 > MAX_MESSAGES

\* The count compared with the length of the window instead of the limit.
OverLimitOfWindowSeconds(bucket) == bucket.count > WINDOW_SECONDS

\* line 83
OverLimit(bucket) == bucket.count > MAX_MESSAGES

\* lines 79-83: expiry test, increment, decision
OffensiveLanguageCount(s) ==
    /\ At(s, "OffensiveLanguageMiddleware")
    /\ req[s].line = 79
    /\ LET b == Increment(ResetIfExpired(req[s].bucket[1], now))
           kr == <<Key(req[s]), b.reset_at>>
           old == TallyAt(kr[1], kr[2])
           new == [ issued |-> old.issued + 1,
                    allowed |-> old.allowed + (IF OverLimit(b) THEN 0 ELSE 1) ]
       IN  /\ req' = [ req EXCEPT ![s] =
                        [ @ EXCEPT !.bucket = <<b>>, !.line = 84 ] ]
           /\ tally' = [ x \in DOMAIN tally \cup {kr} |->
                           IF x = kr THEN new ELSE tally[x] ]
    /\ UNCHANGED <<now, chain, cache, log, arrived>>

OffensiveLanguageCheck(s) ==
    /\ OffensiveLanguageCount(s)
    /\ UNCHANGED admitted

\* The same step, with the time of the decision kept when it is "allowed".
OffensiveLanguageCheckTimed(s) ==
    /\ OffensiveLanguageCount(s)
    /\ LET at == <<Key(req[s]), now>>
       IN  admitted' =
             IF OverLimit(req'[s].bucket[1]) THEN admitted
             ELSE [ x \in DOMAIN admitted \cup {at} |->
                      IF x = at THEN AdmittedAt(at[1], at[2]) + 1 ELSE admitted[x] ]

\* lines 84-86: write the bucket back, then reject or pass on
OffensiveLanguageSet(s) ==
    /\ At(s, "OffensiveLanguageMiddleware")
    /\ req[s].line = 84
    /\ cache' = CacheSet(cache, Key(req[s]), req[s].bucket[1], WINDOW_SECONDS, now)
    /\ req' = [ req EXCEPT ![s] =
                  IF OverLimit(@.bucket[1]) THEN Forbidden(@, RateBody)
                  ELSE GetResponse(@) ]
    /\ UNCHANGED <<now, chain, log, arrived, tally, admitted>>

\* The role test with "and" for "or".
IsAllowedSuperuserInGroup(user) ==
    /\ user # <<>>
    /\ user[1].is_authenticated
    /\ user[1].is_superuser
    /\ GroupsFilterExists(user[1], {"admin", "moderator"})

\* lines 102-107
IsAllowed(user) ==
    /\ user # <<>>
    /\ user[1].is_authenticated
    /\ (user[1].is_superuser \/ GroupsFilterExists(user[1], {"admin", "moderator"}))

RolepermissionMiddleware(s) ==
    /\ At(s, "RolepermissionMiddleware")
    /\ LET r == Enter(req[s], "RolepermissionMiddleware")
       IN  req' = [ req EXCEPT ![s] =
                      IF StartsWithAny(r.path, PROTECTED_PREFIXES) /\ ~IsAllowed(r.user)
                      THEN Forbidden(r, RoleBody)
                      ELSE GetResponse(r) ]
    /\ UNCHANGED <<now, chain, cache, log, arrived, tally, admitted>>

\* The deployed chain, requests in flight together.
Next ==
    \/ Tick(BeforeOpening, MaxTicks)
    \/ \E s \in Slots, t \in Offered : Arrive(s, t, MaxWorkers, MaxRequests)
    \/ \E s \in Slots : RequestLoggingMiddleware(s)
    \/ \E s \in Slots : RestrictAccessByTimeMiddleware(s)
    \/ \E s \in Slots : OffensiveLanguageGet(s)
    \/ \E s \in Slots : OffensiveLanguageCheck(s)
    \/ \E s \in Slots : OffensiveLanguageSet(s)
    \/ \E s \in Slots : RolepermissionMiddleware(s)

Spec == Init /\ [][Next]_vars

\* The limiter alone, requests in flight together.
NextRate ==
    \/ Tick(MidMorning, MaxRateTicks)
    \/ \E s \in Slots, t \in RateOffered : Arrive(s, t, MaxWorkers, MaxRateRequests)
    \/ \E s \in Slots : OffensiveLanguageGet(s)
    \/ \E s \in Slots : OffensiveLanguageCheck(s)
    \/ \E s \in Slots : OffensiveLanguageSet(s)

SpecRate == InitRate /\ [][NextRate]_vars

\* The deployed chain, one request after another.
NextSeq ==
    \/ Tick(BeforeOpening, MaxSeqTicks)
    \/ \E s \in Slots, t \in SeqOffered : Arrive(s, t, 1, MaxSeqRequests)
    \/ \E s \in Slots : RequestLoggingMiddleware(s)
    \/ \E s \in Slots : RestrictAccessByTimeMiddleware(s)
    \/ \E s \in Slots : OffensiveLanguageGet(s)
    \/ \E s \in Slots : OffensiveLanguageCheck(s)
    \/ \E s \in Slots : OffensiveLanguageSet(s)
    \/ \E s \in Slots : RolepermissionMiddleware(s)

SpecSeq == Init /\ [][NextSeq]_vars

\* A worker thread that can take a step of its request is not held up for ever.
Serve(s) ==
    \/ RequestLoggingMiddleware(s)
    \/ RestrictAccessByTimeMiddleware(s)
    \/ OffensiveLanguageGet(s)
    \/ OffensiveLanguageCheck(s)
    \/ OffensiveLanguageSet(s)
    \/ RolepermissionMiddleware(s)

SpecSeqFair == SpecSeq /\ \A s \in 1..MaxWorkers : WF_vars(Serve(s))

\* The role gate alone, handed requests one after another.
NextUnit ==
    \/ \E s \in Slots, t \in UnitOffered : Arrive(s, t, 1, MaxUnitRequests)
    \/ \E s \in Slots : RolepermissionMiddleware(s)

SpecUnit == InitUnit /\ [][NextUnit]_vars

----------------------------------------------------------------------------
(* The steps of the limiter, as the properties below speak of them.        *)

\* Request s reads its bucket (line 76).
GetStep(s) == req[s].line = 0 /\ req'[s].line = 79

\* Request s tests the expiry of the bucket it read and counts itself (79-83).
CheckStep(s) == req[s].line = 79 /\ req'[s].line = 84

\* Request s writes its bucket back and is answered or passed on (84-87).
SetStep(s) == req[s].line = 84 /\ req'[s].line # 84

\* The window a request at line 84 has counted itself in.
WindowOf(s) == <<Key(req[s]), req[s].bucket[1].reset_at>>

\* How many requests have counted themselves in that window so far.
IssuedIn(s) == TallyAt(WindowOf(s)[1], WindowOf(s)[2]).issued

RateRejected(r) == r.state = "Rejected" /\ r.response = RateBody

----------------------------------------------------------------------------
(* C1: whatever the interleaving, a request is answered with the           *)
(* rate-limit rejection only if more than MAX_MESSAGES requests of its     *)
(* client have counted themselves in its window, each of them at a time    *)
(* inside that window (from WINDOW_SECONDS before its reset_at up to, not  *)
(* including, its reset_at): a client that issues at most MAX_MESSAGES     *)
(* requests in a window has none of them rejected.                         *)
C1_WithinQuotaAllowed ==
    [][ \A s \in Slots :
          /\ CheckStep(s) =>
                /\ now < req'[s].bucket[1].reset_at
                /\ req'[s].bucket[1].reset_at <= now + WINDOW_SECONDS
          /\ (SetStep(s) /\ RateRejected(req'[s])) => IssuedIn(s) > MAX_MESSAGES
      ]_vars

\* A window has ended in which the client issued exactly MAX_MESSAGES requests,
\* two of them overlapping, and every one was allowed.
C1_Witness ==
    \E w \in DOMAIN tally :
        /\ tally[w].issued = MAX_MESSAGES
        /\ tally[w].allowed = MAX_MESSAGES
        /\ now >= w[2]
        /\ InFlight = {}
        /\ w[1] \in DOMAIN cache
        /\ cache[w[1]].value.count < MAX_MESSAGES

----------------------------------------------------------------------------
(* C2: with the requests served one after another, the k-th request that   *)
(* counts itself in a window of its client is passed on if                 *)
(* k <= MAX_MESSAGES and answered with the rate-limit rejection if         *)
(* k > MAX_MESSAGES.                                                       *)
C2_KthRequest ==
    [][ \A s \in Slots :
          SetStep(s) =>
             IF IssuedIn(s) <= MAX_MESSAGES
             THEN req'[s].state = "Pending" /\ req'[s].response = ""
             ELSE RateRejected(req'[s])
      ]_vars

\* Six POSTs to /chats/send in one window: five were passed on, the sixth has
\* just been rejected.
C2_Witness ==
    \E s \in Slots, w \in DOMAIN tally :
        /\ RateRejected(req[s])
        /\ req[s].path = "/chats/send"
        /\ tally[w].issued = MAX_MESSAGES + 1
        /\ tally[w].allowed = MAX_MESSAGES
        /\ now < w[2]

----------------------------------------------------------------------------
(* C3: with the requests served one after another, every limited request,  *)
(* rejected ones too, writes back the bucket it counted itself in: after   *)
(* the k-th request of a window the stored count is k, and a request that  *)
(* finds a window whose reset_at is still ahead keeps that reset_at and    *)
(* adds one to its count.                                                  *)
C3_DeniedStillCounts ==
    [][ \A s \in Slots :
          /\ CheckStep(s) =>
                (now < req[s].bucket[1].reset_at =>
                    req'[s].bucket[1] =
                        [ count |-> req[s].bucket[1].count + 1,
                          reset_at |-> req[s].bucket[1].reset_at ])
          /\ SetStep(s) =>
                LET key == Key(req[s])
                IN  /\ key \in DOMAIN cache'
                    /\ cache'[key].value = req[s].bucket[1]
                    /\ cache'[key].value.count = IssuedIn(s)
                    /\ (key \in DOMAIN cache /\ now < cache[key].value.reset_at) =>
                          /\ cache'[key].value.reset_at = cache[key].value.reset_at
                          /\ cache'[key].value.count = cache[key].value.count + 1
      ]_vars

\* The seventh request of a window has been rejected and the stored count is 7.
C3_Witness ==
    \E s \in Slots :
        /\ RateRejected(req[s])
        /\ Key(req[s]) \in DOMAIN cache
        /\ cache[Key(req[s])].value.count = MAX_MESSAGES + 2
        /\ now < cache[Key(req[s])].value.reset_at

----------------------------------------------------------------------------
(* C4: a request that finds no stored window, or one whose reset_at is at  *)
(* or before the time of its test, starts a fresh window whatever the old  *)
(* count was: it is passed on, and it leaves count = 1 and                 *)
(* reset_at = (the time it started the window) + WINDOW_SECONDS in the     *)
(* store.                                                                  *)
C4_ExpiredWindowIsFresh ==
    [][ \A s \in Slots :
          LET key == Key(req[s])
          IN  /\ (GetStep(s) /\ (key \notin DOMAIN cache \/ cache[key].expires <= now)) =>
                    req'[s].bucket[1] = [ count |-> 0, reset_at |-> now + WINDOW_SECONDS ]
              /\ (CheckStep(s) /\ now >= req[s].bucket[1].reset_at) =>
                    req'[s].bucket[1] = [ count |-> 1, reset_at |-> now + WINDOW_SECONDS ]
              /\ (CheckStep(s) /\ req[s].bucket[1].count = 0) =>
                    req'[s].bucket[1].count = 1
              /\ (SetStep(s) /\ req[s].bucket[1].count = 1) =>
                    /\ req'[s].state = "Pending" /\ req'[s].response = ""
                    /\ cache'[key].value = req[s].bucket[1]
      ]_vars

\* A window that had counted six requests has run out, and the next request has
\* replaced it by a fresh one and been passed on.
C4_Witness ==
    \E w \in DOMAIN tally, s \in Slots :
        /\ w[1] = Key(req[s])
        /\ tally[w].issued = MAX_MESSAGES + 1
        /\ w[2] <= now
        /\ w[1] \in DOMAIN cache
        /\ cache[w[1]].value.count = 1
        /\ cache[w[1]].value.reset_at > w[2]
        /\ req[s].state = "Pending"
        /\ Stage(s) = "RolepermissionMiddleware"

----------------------------------------------------------------------------
(* C5: of the requests of one client that count themselves in one window,  *)
(* at most MAX_MESSAGES are allowed, whatever the interleaving of their    *)
(* cache accesses.                                                         *)
C5_AtMostMaxAllowed ==
    \A w \in DOMAIN tally : tally[w].allowed <= MAX_MESSAGES

----------------------------------------------------------------------------
(* The stages of chats/middleware.py and the view, in the order the spec   *)
(* gives, and those a request has entered.                                 *)

PipelineOrder ==
    << "RequestLoggingMiddleware", "RestrictAccessByTimeMiddleware",
       "OffensiveLanguageMiddleware", "RolepermissionMiddleware", "view" >>

Entered(r) ==
    SelectSeq(r.ran, LAMBDA x : x \in ChatsMiddleware \cup {"view"})

Terminal(r) == r.state \in {"Rejected", "Forwarded"}

\* Request s is answered "closed" in this step.
ClosedStep(s) == req[s].response = "" /\ req'[s].response = ClosedBody

----------------------------------------------------------------------------
(* C6: a request enters the stages in the order Logger, TimeGate,          *)
(* RateLimiter, RoleGate, downstream handler, and the first gate that      *)
(* denies ends it: one rejected by the TimeGate has entered nothing after  *)
(* the TimeGate and its rejection leaves the cache as it was, one rejected *)
(* by the limiter has entered neither the RoleGate nor the view, and a     *)
(* rejected request takes no further step.                                 *)
C6_FixedOrderShortCircuit ==
    [][ \A s \in Slots :
          LET r == req'[s]
              e == Entered(r)
          IN  /\ Len(e) <= 5 /\ e = SubSeq(PipelineOrder, 1, Len(e))
              /\ r.response = ClosedBody => r.state = "Rejected" /\ Len(e) = 2
              /\ r.response = RateBody => r.state = "Rejected" /\ Len(e) = 3
              /\ r.response = RoleBody => r.state = "Rejected" /\ Len(e) = 4
              /\ r.state = "Forwarded" => Len(e) = 5
              /\ ClosedStep(s) => cache' = cache /\ tally' = tally
              /\ (req[s].state = "Rejected" /\ arrived' = arrived) => r = req[s]
      ]_vars

\* The limiter has rejected the sixth request of a window: the request has
\* entered the logger, the TimeGate and the limiter, and nothing else.
C6_Witness ==
    \E s \in Slots, w \in DOMAIN tally :
        /\ RateRejected(req[s])
        /\ Entered(req[s]) = SubSeq(PipelineOrder, 1, 3)
        /\ tally[w].issued = MAX_MESSAGES + 1
        /\ log.lines = arrived

----------------------------------------------------------------------------
(* C7: every request starts Pending and, its worker being scheduled,       *)
(* reaches Rejected or Forwarded and stays there: the TimeGate rejects it  *)
(* iff the hour is outside [START_HOUR, END_HOUR), the limiter iff its     *)
(* count is over MAX_MESSAGES, the RoleGate iff the path is protected and  *)
(* the user is not privileged; the logger and the reading steps of the     *)
(* limiter leave it Pending, and past the RoleGate it is Forwarded.        *)
C7_StepOK(s) ==
    LET r == req[s]
        q == req'[s]
        moved == q # r
    IN  /\ (Terminal(r) /\ arrived' = arrived) => ~moved
        /\ (r.state # "Pending" /\ moved) => q.state = "Pending" /\ q.response = ""
        /\ (r.state = "Pending" /\ moved) =>
              CASE Stage(s) = "RequestLoggingMiddleware" -> q.state = "Pending"
                [] Stage(s) = "RestrictAccessByTimeMiddleware" ->
                      IF Hour(now) >= 6 /\ Hour(now) < 21
                      THEN q.state = "Pending" /\ q.response = ""
                      ELSE q.state = "Rejected" /\ q.response = ClosedBody
                [] Stage(s) = "OffensiveLanguageMiddleware" ->
                      IF r.line = 84 /\ r.bucket[1].count > 5
                      THEN q.state = "Rejected" /\ q.response = RateBody
                      ELSE q.state = "Pending" /\ q.response = ""
                [] Stage(s) = "RolepermissionMiddleware" ->
                      IF /\ \/ StartsWith(r.path, "/chats/admin")
                            \/ StartsWith(r.path, "/chats/moderate")
                         /\ ~ /\ r.user # <<>>
                              /\ r.user[1].is_authenticated
                              /\ \/ r.user[1].is_superuser
                                 \/ r.user[1].groups \cap {"admin", "moderator"} # {}
                      THEN q.state = "Rejected" /\ q.response = RoleBody
                      ELSE q.state = "Forwarded" /\ q.response = ViewBody

C7_EveryRequestEnds ==
    /\ [][ \A s \in Slots : C7_StepOK(s) ]_vars
    /\ \A s \in 1..MaxWorkers :
          (req[s].state = "Pending") ~> Terminal(req[s])

\* One request has ended Forwarded and the one after it, on the same worker,
\* Rejected by the limiter.
C7_Witness ==
    /\ \E s \in Slots : RateRejected(req[s])
    /\ \E w \in DOMAIN tally : tally[w].allowed = MAX_MESSAGES
    /\ arrived = MaxSeqRequests

----------------------------------------------------------------------------
(* C8: the logger has emitted one line for every request that has passed   *)
(* it, rejected ones included, and none for any other; it is the first of  *)
(* the stages a request enters, so its line is out before any gate         *)
(* decides; and no request is rejected by it.                              *)
C8_OneLinePerRequest ==
    /\ log.lines =
          arrived - Cardinality({ s \in Slots :
                        /\ req[s].state = "Pending"
                        /\ "RequestLoggingMiddleware" \notin Range(req[s].ran) })
    /\ \A s \in Slots :
          /\ Entered(req[s]) # <<>> => Entered(req[s])[1] = "RequestLoggingMiddleware"
          /\ Terminal(req[s]) => "RequestLoggingMiddleware" \in Range(req[s].ran)
          /\ req[s].state = "Rejected" =>
                Entered(req[s])[Len(Entered(req[s]))] # "RequestLoggingMiddleware"

\* Two requests have come before the chat opened; both are logged and rejected.
C8_Witness ==
    /\ arrived = 2
    /\ log.lines = 2
    /\ \A s \in Slots : req[s].state = "Rejected" /\ req[s].response = ClosedBody

----------------------------------------------------------------------------
(* C9: the role gate, handed a request on its own, passes it on iff its    *)
(* path starts with no protected prefix, or request.user is there, is      *)
(* authenticated, and is a superuser or in group admin or moderator.       *)
C9_RoleGate ==
    \A s \in Slots :
        LET r == req[s]
            protected ==
                \/ StartsWith(r.path, "/chats/admin")
                \/ StartsWith(r.path, "/chats/moderate")
            privileged ==
                /\ r.user # <<>>
                /\ r.user[1].is_authenticated
                /\ \/ r.user[1].is_superuser
                   \/ "admin" \in r.user[1].groups
                   \/ "moderator" \in r.user[1].groups
        IN  /\ r.state \in {"Idle", "Pending", "Rejected", "Forwarded"}
            /\ r.state = "Forwarded" => (~protected \/ privileged)
            /\ r.state = "Rejected" =>
                  (protected /\ ~privileged /\ r.response = RoleBody)

\* The gate has passed on a member of group admin on /chats/admin/x, the
\* second request handed to it.
C9_Witness ==
    /\ arrived = 2
    /\ \E s \in Slots :
          /\ req[s].state = "Forwarded"
          /\ req[s].user = <<Adam>>
          /\ req[s].path = "/chats/admin/x"

----------------------------------------------------------------------------
(* C10: in the chain of settings.MIDDLEWARE, a request to /chats/admin/x   *)
(* whose session is that of an authenticated member of group admin, and    *)
(* which neither the TimeGate nor the limiter has rejected, ends           *)
(* Forwarded.                                                              *)
C10_AdminForwarded ==
    \A s \in Slots :
        ( /\ Terminal(req[s])
          /\ req[s].path = "/chats/admin/x"
          /\ req[s].session.is_authenticated
          /\ "admin" \in req[s].session.groups
          /\ req[s].response \notin {ClosedBody, RateBody} )
        => req[s].state = "Forwarded"

----------------------------------------------------------------------------
(* The time gate alone in front of the view, the clock set to the first    *)
(* and the last minute and second of every hour of the day.                *)

GateTimes == { HMS(h, m, s) : h \in 0..23, m \in {0, 59}, s \in {0, 59} }

InitTime == \E t \in GateTimes : Boot(t, <<"RestrictAccessByTimeMiddleware">>)

NextTime ==
    \/ \E s \in Slots, t \in Offered : Arrive(s, t, 1, MaxUnitRequests)
    \/ \E s \in Slots : RestrictAccessByTimeMiddleware(s)

SpecTime == InitTime /\ [][NextTime]_vars

----------------------------------------------------------------------------
(* C11: the time gate passes a request on iff the hour of the local time   *)
(* is one of 6..20 and rejects it with the "closed" body iff the hour is   *)
(* one of 0..5 or 21..23, whatever the minute and the second.              *)
C11_TimeGateByHour ==
    \A s \in Slots, h \in 0..23, m \in 0..59, sec \in 0..59 :
        (Terminal(req[s]) /\ now = h * 3600 + m * 60 + sec) =>
            /\ h \in 6..20 =>
                  req[s].state = "Forwarded" /\ req[s].response = ViewBody
            /\ h \in (0..5) \cup (21..23) =>
                  req[s].state = "Rejected" /\ req[s].response = ClosedBody

\* A request at 20:59:59 has been passed on.
C11_Witness ==
    /\ now = 20 * 3600 + 59 * 60 + 59
    /\ \E s \in Slots : req[s].state = "Forwarded"

----------------------------------------------------------------------------
(* The limiter alone, handed requests in and out of its scope, in flight   *)
(* together, all within one window.                                        *)

GetSend == Template("GET", "/chats/send", <<>>, FromOffice, AnonymousUser)
PostElsewhere == Template("POST", "/chat/send", <<>>, FromOffice, AnonymousUser)

ScopeOffered == { PostSend, GetSend, PostElsewhere }

NextScope ==
    \/ \E s \in Slots, t \in ScopeOffered : Arrive(s, t, MaxWorkers, MaxScopeRequests)
    \/ \E s \in Slots : OffensiveLanguageGet(s)
    \/ \E s \in Slots : OffensiveLanguageCheck(s)
    \/ \E s \in Slots : OffensiveLanguageSet(s)

SpecScope == InitRate /\ [][NextScope]_vars

\* The request is a POST to a path that starts with /chats.
InScope(r) ==
    r.method = "POST" /\ Len(r.path) >= 6 /\ SubSeq(r.path, 1, 6) = "/chats"

----------------------------------------------------------------------------
(* C12: a request that is not a POST to a path starting with /chats goes   *)
(* through the limiter in one step that passes it on and leaves the cache  *)
(* as it was, whatever count is stored for its client; it never reads a    *)
(* bucket and is never answered with the rate-limit rejection.             *)
C12_OutOfScopeUntouched ==
    [][ \A s \in Slots :
          /\ (At(s, "OffensiveLanguageMiddleware") /\ ~InScope(req[s])
                /\ req'[s] # req[s]) =>
                /\ cache' = cache
                /\ tally' = tally
                /\ req'[s].state = "Forwarded"
                /\ req'[s].response = ViewBody
          /\ ~InScope(req'[s]) =>
                /\ req'[s].line = 0
                /\ req'[s].bucket = <<>>
                /\ req'[s].response # RateBody
      ]_vars

\* With a count over the limit stored for the client and its window open, a
\* GET to /chats/send and a POST to /chat/send of that client have been passed
\* on.
C12_Witness ==
    /\ Key(GetSend) \in DOMAIN cache
    /\ cache[Key(GetSend)].value.count > MAX_MESSAGES
    /\ now < cache[Key(GetSend)].value.reset_at
    /\ \E s, z \in Slots :
          /\ req[s].state = "Forwarded" /\ req[s].method = "GET"
          /\ req[s].path = "/chats/send"
          /\ req[z].state = "Forwarded" /\ req[z].method = "POST"
          /\ req[z].path = "/chat/send"

----------------------------------------------------------------------------
(* The deployed chain over a cache backend that can fail: cache.get and    *)
(* cache.set may raise instead of returning.  OffensiveLanguageMiddleware  *)
(* has no try around them, and neither have the middleware outside it, so  *)
(* the exception leaves every __call__ of chats/middleware.py.             *)

\* An exception leaves the __call__ serving r: no response is returned.
Raise(r) == [ Return(r) EXCEPT !.state = "Raised" ]

\* line 76, cache.get raising
OffensiveLanguageGetRaises(s) ==
    /\ At(s, "OffensiveLanguageMiddleware")
    /\ req[s].line = 0
    /\ RateLimited(req[s])
    /\ req' = [ req EXCEPT ![s] = Raise(Enter(@, "OffensiveLanguageMiddleware")) ]
    /\ UNCHANGED <<now, chain, cache, log, arrived, tally, admitted>>

\* lines 84 and 86, cache.set raising
OffensiveLanguageSetRaises(s) ==
    /\ At(s, "OffensiveLanguageMiddleware")
    /\ req[s].line = 84
    /\ req' = [ req EXCEPT ![s] = Raise(@) ]
    /\ UNCHANGED <<now, chain, cache, log, arrived, tally, admitted>>

NextFault ==
    \/ Tick(BeforeOpening, MaxTicks)
    \/ \E s \in Slots, t \in Offered : Arrive(s, t, 1, MaxFaultRequests)
    \/ \E s \in Slots : RequestLoggingMiddleware(s)
    \/ \E s \in Slots : RestrictAccessByTimeMiddleware(s)
    \/ \E s \in Slots : OffensiveLanguageGet(s)
    \/ \E s \in Slots : OffensiveLanguageGetRaises(s)
    \/ \E s \in Slots : OffensiveLanguageCheck(s)
    \/ \E s \in Slots : OffensiveLanguageSet(s)
    \/ \E s \in Slots : OffensiveLanguageSetRaises(s)
    \/ \E s \in Slots : RolepermissionMiddleware(s)

SpecFault == Init /\ [][NextFault]_vars

----------------------------------------------------------------------------
(* C13: a cache.get or cache.set that raises during a limited request      *)
(* does not end the request with an exception: the request is still        *)
(* Pending, or has ended Rejected or Forwarded.                            *)
C13_StoreFailureFailsOpen ==
    \A s \in Slots : req[s].state \in {"Idle", "Pending", "Rejected", "Forwarded"}

----------------------------------------------------------------------------
(* The limiter alone, handed POSTs of several clients, direct and through  *)
(* proxies, in flight together, all within one window.                     *)

ViaOtherProxy == <<"10.0.0.2 , 10.0.0.9">>
FromHome == <<"10.0.0.3">>

PostViaOtherProxy == Template("POST", "/chats/send", ViaOtherProxy, FromHome, Alice)
PostEmptyForwarded == Template("POST", "/chats/send", <<"">>, FromOffice, AnonymousUser)
PostNoAddress == Template("POST", "/chats/send", <<>>, <<>>, AnonymousUser)

KeysOffered ==
    { PostSend, PostSendViaProxy, PostViaOtherProxy, PostEmptyForwarded,
      PostNoAddress }

NextKeys ==
    \/ \E s \in Slots, t \in KeysOffered : Arrive(s, t, MaxWorkers, MaxKeyRequests)
    \/ \E s \in Slots : OffensiveLanguageGet(s)
    \/ \E s \in Slots : OffensiveLanguageCheck(s)
    \/ \E s \in Slots : OffensiveLanguageSet(s)

SpecKeys == InitRate /\ [][NextKeys]_vars

\* The client a request counts against, header by header.
ClientOf(r) ==
    LET xff == r.META.HTTP_X_FORWARDED_FOR
        remote == r.META.REMOTE_ADDR
    IN  CASE xff = <<"10.0.0.2, 10.0.0.1">> -> "10.0.0.2"
          [] xff = <<"10.0.0.2 , 10.0.0.9">> -> "10.0.0.2"
          [] xff \in {<<>>, <<"">>} /\ remote = <<"10.0.0.1">> -> "10.0.0.1"
          [] xff \in {<<>>, <<"">>} /\ remote = <<>> -> "0.0.0.0"

----------------------------------------------------------------------------
(* C14: a limited request reads and writes the cache entry named by the    *)
(* first entry of its X-Forwarded-For list when the header is there and    *)
(* not empty, else by REMOTE_ADDR, else by 0.0.0.0, and no other entry:    *)
(* requests with the same first forwarded entry count in one bucket        *)
(* whatever their REMOTE_ADDR, and requests of one REMOTE_ADDR with        *)
(* different first forwarded entries in different buckets.                 *)
C14_KeyFromForwardedFor ==
    [][ \A s \in Slots :
          LET k == "chat_rate_" \o ClientOf(req[s])
          IN  /\ GetStep(s) =>
                    req'[s].bucket[1] =
                        IF k \in DOMAIN cache /\ cache[k].expires > now
                        THEN cache[k].value
                        ELSE [ count |-> 0, reset_at |-> now + WINDOW_SECONDS ]
              /\ SetStep(s) =>
                    /\ k \in DOMAIN cache'
                    /\ cache'[k].value = req[s].bucket[1]
                    /\ \A j \in DOMAIN cache' \ {k} :
                          j \in DOMAIN cache /\ cache'[j] = cache[j]
      ]_vars

\* Two requests forwarded for 10.0.0.2, one received from 10.0.0.1 and one from
\* 10.0.0.3, have counted in one bucket, and nothing is stored for 10.0.0.1 or
\* 10.0.0.3.
C14_Witness ==
    /\ DOMAIN cache = {"chat_rate_10.0.0.2"}
    /\ cache["chat_rate_10.0.0.2"].value.count = 2
    /\ \E s, z \in Slots :
          /\ req[s].state = "Forwarded" /\ req[z].state = "Forwarded"
          /\ req[s].META = PostViaOtherProxy.META
          /\ req[z].META = PostSendViaProxy.META
    /\ arrived = 2

----------------------------------------------------------------------------
(* C15: the read of line 76 and the writes of lines 84/86 are separate     *)
(* steps, so two requests of one client can read the same bucket and both  *)
(* write it back raised by one.  The stored count is never above the       *)
(* number of requests that have counted themselves in the stored window,   *)
(* and more than MAX_MESSAGES requests are allowed in that window only     *)
(* when the stored count is below that number, that is, when an update     *)
(* was lost; the witness shows that this happens.                          *)
C15_OverQuotaOnlyByLostUpdate ==
    \A key \in DOMAIN cache :
        LET b == cache[key].value
            w == TallyAt(key, b.reset_at)
        IN  /\ b.count <= w.issued
            /\ w.allowed > MAX_MESSAGES => b.count < w.issued

\* Six requests of one client have counted themselves in one window and all six
\* were allowed; the last two, in flight together, have both been passed on, and
\* the stored count is five.
C15_Witness ==
    /\ InFlight = {}
    /\ \A s \in Slots : req[s].state = "Forwarded"
    /\ \E key \in DOMAIN cache :
          LET b == cache[key].value
              w == TallyAt(key, b.reset_at)
          IN  /\ w.issued = MAX_MESSAGES + 1
              /\ w.allowed = MAX_MESSAGES + 1
              /\ b.count = MAX_MESSAGES
              /\ now < b.reset_at

----------------------------------------------------------------------------
(* The limiter alone, handed the POSTs of one client one after another,    *)
(* with the time of every "allowed" kept.                                  *)

NextBurst ==
    \/ Tick(MidMorning, MaxBurstTicks)
    \/ \E s \in Slots, t \in RateOffered : Arrive(s, t, 1, MaxBurstRequests)
    \/ \E s \in Slots : OffensiveLanguageGet(s)
    \/ \E s \in Slots : OffensiveLanguageCheckTimed(s)
    \/ \E s \in Slots : OffensiveLanguageSet(s)

SpecBurst == InitRate /\ [][NextBurst]_vars

RECURSIVE SumOver(_)
SumOver(xs) ==
    IF xs = {} THEN 0
    ELSE LET x == CHOOSE y \in xs : TRUE
         IN  admitted[x] + SumOver(xs \ {x})

\* The number of requests of `key` allowed at a time from a to b, both included.
AdmittedIn(key, a, b) ==
    SumOver({ x \in DOMAIN admitted : x[1] = key /\ a <= x[2] /\ x[2] <= b })

----------------------------------------------------------------------------
(* C16: with the requests of a client served one after another, the        *)
(* limiter allows at most 2 x MAX_MESSAGES of them in any interval of      *)
(* WINDOW_SECONDS seconds.  It is enough to look at the intervals that     *)
(* begin at the time of an allowed request: any other interval holds no    *)
(* more than the one that begins at the first allowed request in it.       *)
C16_AtMostTwiceMaxPerInterval ==
    \A x \in DOMAIN admitted :
        AdmittedIn(x[1], x[2], x[2] + WINDOW_SECONDS) <= 2 * MAX_MESSAGES

\* A burst across the end of a window: MAX_MESSAGES requests allowed in the
\* second half of one window and MAX_MESSAGES more when the next window opens,
\* 2 x MAX_MESSAGES within half a minute.
C16_Witness ==
    \E x \in DOMAIN admitted :
        /\ AdmittedIn(x[1], x[2], x[2] + TickSeconds) = 2 * MAX_MESSAGES
        /\ TallyAt(x[1], x[2] + TickSeconds).allowed = MAX_MESSAGES
        /\ TallyAt(x[1], x[2] + TickSeconds + WINDOW_SECONDS).allowed = MAX_MESSAGES

----------------------------------------------------------------------------
(* The limiter alone, handed the POSTs of two clients behind one address,  *)
(* in flight together, over more than a window.                            *)

ClientsOffered == { PostSend, PostSendViaProxy }

NextClients ==
    \/ Tick(MidMorning, MaxRateTicks)
    \/ \E s \in Slots, t \in ClientsOffered :
            Arrive(s, t, MaxWorkers, MaxClientRequests)
    \/ \E s \in Slots : OffensiveLanguageGet(s)
    \/ \E s \in Slots : OffensiveLanguageCheck(s)
    \/ \E s \in Slots : OffensiveLanguageSet(s)

SpecClients == InitRate /\ [][NextClients]_vars

\* Request s takes a step inside the limiter.
LimiterStep(s) == GetStep(s) \/ CheckStep(s) \/ SetStep(s)

----------------------------------------------------------------------------
(* C17: whatever the interleaving, a step of a request inside the limiter  *)
(* leaves the cache entry of every other client as it was (there or not    *)
(* there, value and expiry), and leaves every other request as it was,     *)
(* the bucket it has read and decides on included; a request reads its     *)
(* bucket from the entry of its own client and is rejected iff the count   *)
(* it made of that bucket is over MAX_MESSAGES.                            *)
C17_PerKeyIsolation ==
    [][ \A s \in Slots :
          LET own == "chat_rate_" \o ClientOf(req[s])
          IN  /\ LimiterStep(s) =>
                    /\ \A j \in (DOMAIN cache \cup DOMAIN cache') \ {own} :
                          /\ j \in DOMAIN cache
                          /\ j \in DOMAIN cache'
                          /\ cache'[j] = cache[j]
                    /\ \A z \in Slots \ {s} : req'[z] = req[z]
              /\ GetStep(s) =>
                    \/ /\ own \in DOMAIN cache
                       /\ req'[s].bucket[1] = cache[own].value
                    \/ req'[s].bucket[1] =
                          [ count |-> 0, reset_at |-> now + WINDOW_SECONDS ]
              /\ SetStep(s) =>
                    (RateRejected(req'[s]) <=> req[s].bucket[1].count > MAX_MESSAGES)
      ]_vars

\* Requests of both clients have been in flight together; two of 10.0.0.1 are
\* counted in its entry and one of 10.0.0.2, written earlier, in the other.
C17_Witness ==
    /\ DOMAIN cache = {"chat_rate_10.0.0.1", "chat_rate_10.0.0.2"}
    /\ cache["chat_rate_10.0.0.1"].value.count = 2
    /\ cache["chat_rate_10.0.0.2"].value.count = 1
    /\ cache["chat_rate_10.0.0.1"].expires > cache["chat_rate_10.0.0.2"].expires
    /\ \E s, z \in Slots :
          /\ req[s].state = "Forwarded" /\ req[z].state = "Forwarded"
          /\ ClientOf(req[s]) = "10.0.0.1"
          /\ ClientOf(req[z]) = "10.0.0.2"

----------------------------------------------------------------------------
(* C18: whatever the interleaving, a limited request goes through the      *)
(* limiter in three steps, in this order and once each: it reads the       *)
(* bucket of its client, raises the count, and writes the bucket back      *)
(* whole under the key of its client; the count it writes is at least 1    *)
(* and it is rejected iff that count is over MAX_MESSAGES.  The cache      *)
(* changes in no other way, except that the read of an expired entry       *)
(* drops it; so every stored bucket has count >= 1 and is the bucket one   *)
(* request wrote.                                                          *)
C18_OneReadOneWrite ==
    [][ /\ \A s \in Slots :
              LET r == req[s]
                  q == req'[s]
                  key == "chat_rate_" \o ClientOf(r)
              IN  /\ (r.state = "Pending" /\ q # r) =>
                        GetStep(s) \/ CheckStep(s) \/ SetStep(s)
                  /\ GetStep(s) =>
                        /\ r.bucket = <<>>
                        /\ q.state = "Pending"
                        /\ \A k \in DOMAIN cache' : cache'[k] = cache[k]
                  /\ CheckStep(s) =>
                        /\ q.state = "Pending"
                        /\ q.bucket[1].count >= 1
                        /\ cache' = cache
                  /\ SetStep(s) =>
                        /\ q.state \in {"Rejected", "Forwarded"}
                        /\ q.line = 0
                        /\ r.bucket[1].count >= 1
                        /\ DOMAIN cache' = DOMAIN cache \cup {key}
                        /\ cache'[key] = [ value |-> r.bucket[1],
                                           expires |-> now + WINDOW_SECONDS ]
                        /\ \A k \in DOMAIN cache \ {key} : cache'[k] = cache[k]
                        /\ (q.state = "Rejected" <=> r.bucket[1].count > MAX_MESSAGES)
        /\ cache' # cache => \E s \in Slots : GetStep(s) \/ SetStep(s)
        /\ \A k \in DOMAIN cache' :
              /\ cache'[k].value.count >= 1
              /\ DOMAIN cache'[k].value = {"count", "reset_at"}
      ]_vars

\* Two requests in flight together have both read, counted and written: one was
\* passed on and one rejected, and the stored bucket is the rejected one's.
C18_Witness ==
    /\ InFlight = {}
    /\ \E s, z \in Slots :
          /\ req[s].state = "Forwarded"
          /\ RateRejected(req[z])
          /\ Key(req[z]) \in DOMAIN cache
          /\ cache[Key(req[z])].value.count = MAX_MESSAGES + 1
          /\ arrived = MAX_MESSAGES + 1

----------------------------------------------------------------------------
(* C19: every write stores the bucket with expiry = time of the write +    *)
(* WINDOW_SECONDS, which is never before the reset_at of the bucket        *)
(* written; so every stored entry outlives its own window, and an entry    *)
(* is found expired, and dropped, only at a time at or after its           *)
(* reset_at, also when requests that are rejected keep writing it.         *)
C19_ExpiryNotBeforeReset ==
    [][ /\ \A k \in DOMAIN cache' : cache'[k].expires >= cache'[k].value.reset_at
        /\ \A s \in Slots :
              LET key == "chat_rate_" \o ClientOf(req[s])
              IN  /\ SetStep(s) =>
                        /\ cache'[key].expires = now + WINDOW_SECONDS
                        /\ cache'[key].expires >= req[s].bucket[1].reset_at
                  /\ (GetStep(s) /\ key \in DOMAIN cache
                        /\ req'[s].bucket[1] # cache[key].value) =>
                        now >= cache[key].value.reset_at
        /\ \A k \in DOMAIN cache \ DOMAIN cache' :
              now >= cache[k].value.reset_at
      ]_vars

\* A request rejected in the second half of a window has written the bucket
\* back: the entry now expires half a window after its reset_at.
C19_Witness ==
    \E s \in Slots :
        /\ RateRejected(req[s])
        /\ Key(req[s]) \in DOMAIN cache
        /\ cache[Key(req[s])].value.count > MAX_MESSAGES
        /\ cache[Key(req[s])].expires =
              cache[Key(req[s])].value.reset_at + TickSeconds

----------------------------------------------------------------------------
(* The deployed chain, one request after another, for a client that posts  *)
(* to the protected paths and turns to /chats/send once MAX_MESSAGES of    *)
(* its requests have passed the limiter in some window.                    *)

PostModerate == Template("POST", "/chats/moderate", <<>>, FromOffice, Alice)

QuotaOffered ==
    {PostModerate, PostAdmin} \cup
    (IF \E w \in DOMAIN tally : tally[w].allowed >= MAX_MESSAGES
     THEN {PostSend} ELSE {})

NextQuota ==
    \/ Tick(BeforeOpening, MaxTicks)
    \/ \E s \in Slots, t \in QuotaOffered : Arrive(s, t, 1, MaxQuotaRequests)
    \/ \E s \in Slots : RequestLoggingMiddleware(s)
    \/ \E s \in Slots : RestrictAccessByTimeMiddleware(s)
    \/ \E s \in Slots : OffensiveLanguageGet(s)
    \/ \E s \in Slots : OffensiveLanguageCheck(s)
    \/ \E s \in Slots : OffensiveLanguageSet(s)
    \/ \E s \in Slots : RolepermissionMiddleware(s)

SpecQuota == Init /\ [][NextQuota]_vars

\* The role gate rejects request s in this step.
RoleRejectStep(s) ==
    /\ req[s].state = "Pending"
    /\ req'[s].state = "Rejected"
    /\ req'[s].response = RoleBody

----------------------------------------------------------------------------
(* C20: when the role gate rejects a POST to a protected path, the request *)
(* has been through the limiter and is counted in the stored bucket of its *)
(* client, and the rejection gives nothing back; and a POST to a path      *)
(* under /chats that counts itself in the stored window when the stored    *)
(* count is MAX_MESSAGES or more is rejected by the limiter, however the   *)
(* requests counted before it ended.                                       *)
C20_RoleRejectedConsumeQuota ==
    [][ \A s \in Slots :
          LET r == req[s]
              key == "chat_rate_10.0.0.1"
          IN  /\ (RoleRejectStep(s) /\ r.method = "POST") =>
                    /\ \E i \in 1..Len(r.ran) : r.ran[i] = "OffensiveLanguageMiddleware"
                    /\ key \in DOMAIN cache
                    /\ cache[key].value.count >= 1
                    /\ cache[key].value.count =
                          TallyAt(key, cache[key].value.reset_at).issued
                    /\ cache' = cache
              /\ (SetStep(s) /\ key \in DOMAIN cache
                    /\ r.bucket[1].reset_at = cache[key].value.reset_at
                    /\ cache[key].value.count >= MAX_MESSAGES) =>
                    RateRejected(req'[s])
      ]_vars

\* Six requests have come, all after the chat opened: five POSTs to protected
\* paths, each passed by the limiter and rejected by the role gate, and then a
\* POST to /chats/send in the same window, rejected by the limiter.
C20_Witness ==
    /\ arrived = MAX_MESSAGES + 1
    /\ "chat_rate_10.0.0.1" \in DOMAIN cache
    /\ cache["chat_rate_10.0.0.1"].value.count = MAX_MESSAGES + 1
    /\ DOMAIN tally =
          {<<"chat_rate_10.0.0.1", cache["chat_rate_10.0.0.1"].value.reset_at>>}
    /\ \A w \in DOMAIN tally :
          tally[w].issued = MAX_MESSAGES + 1 /\ tally[w].allowed = MAX_MESSAGES
    /\ \E s \in Slots : RateRejected(req[s]) /\ req[s].path = "/chats/send"

====
